---- MODULE Spec2Model ----
(***************************************************************************)
(* Model of stem/connection.py: ControlConnection, its reader thread       *)
(* (_reader_loop), its event thread (_event_loop), concurrent send()       *)
(* callers and one close() caller, over a control socket whose peer is     *)
(* the tor daemon.                                                         *)
(***************************************************************************)
EXTENDS Integers, Sequences, FiniteSets

\* ---------------------------------------------------------------- bounds
NumSenders == 2
MaxSends == 2
MaxEvents == 2
MaxCloses == 2

Senders == 1..NumSenders

\* Status-code sequences (one code per line) of the messages the daemon
\* produces.  A reply ends with a non-650 line, an event with a 650 line;
\* _read_message does not require the lines of a message to share a code.
ReplyShapes == { <<"250">>, <<"650", "250">> }
EventShapes == { <<"250", "650">> }

NoMsg == [src |-> "none", id |-> 0, codes |-> <<>>]

VARIABLES
  is_running,    \* self._is_running
  sock,          \* "open" | "closed": _control_socket / _control_socket_file
  peer,          \* "up" | "eof" | "reset": the daemon's end of the socket
  wire,          \* messages the daemon has written and the reader has not read
  event_queue,   \* self._event_queue
  reply_queue,   \* self._reply_queue
  wlock,         \* self._socket_write_cond (an RLock): [owner, count]
  elock,         \* holder of self._event_cond's lock: "free", "reader", "close"
  spc,           \* position of each send() caller
  rpc,           \* position of the reader thread
  epc,           \* position of the event thread
  cpc,           \* position of the close() caller
  rmsg,          \* control_message held by the reader
  emsg,          \* event_message held by the event thread
  calls,         \* send() invocations so far, over all callers
  ncmd,          \* commands written to the socket so far
  nev,           \* events the daemon has emitted so far
  mine,          \* wire position of the command each caller wrote in its current call
  got,           \* message returned by each caller's last completed send()
  late,          \* the caller's current send() was invoked on a torn-down connection
  handled,       \* messages passed to handle_event, in invocation order
  at_close,      \* ids of the events queued when close() was invoked
  eof_seen,      \* the reader's read hit end-of-stream
  read_failed,   \* the reader's read raised a transport error
  closes,        \* close() invocations so far
  sockin,        \* _read_message: lines readline() will return, in order
  ppc,           \* _read_message: "line" | "data" (inside a data block) | "dead"
  plines,        \* _read_message: lines, the tuples parsed so far
  praw,          \* _read_message: raw_content
  pcur,          \* _read_message: status_code and content of the open data block
  pblocks,       \* per tuple of plines: the bytes it was parsed from
  delivered,     \* ControlMessages _read_message has returned to _reader_loop
  perrors,       \* ProtocolErrors _reader_loop has logged
  lrunning,      \* BaseController: the running flag
  lworkers,      \* BaseController: reader and dispatcher threads are alive
  lconnects,     \* BaseController: connect() calls that connected, capped at 2
  listeners,     \* BaseController: status listeners, [fn, spawn_async], in order
  observed,      \* per listener fn: the state it was last invoked with
  pending,       \* notifications handed to spawned threads, not yet run
  lops           \* the last two things done: "connect", "close" or "other"

cvars == << is_running, sock, peer, wire, event_queue, reply_queue, wlock, elock,
           spc, rpc, epc, cpc, rmsg, emsg, calls, ncmd, nev, mine, got, late,
            handled, at_close, eof_seen, read_failed, closes >>

pvars == << sockin, ppc, plines, praw, pcur, pblocks, delivered, perrors >>

lvars == << lrunning, lworkers, lconnects, listeners, observed, pending, lops >>

others == << pvars, lvars >>

vars == << cvars, others >>

\* -------------------------------------------------------------- helpers
Last(s) == s[Len(s)]

\* ControlMessage.get_status_code(line = -1)
get_status_code_first(m) == m.codes[1]
get_status_code(m) == m.codes[Len(m.codes)]

\* Queue.put / Queue.get_nowait on a FIFO queue
QueuePutFront(q, m) == <<m>> \o q
QueuePut(q, m) == Append(q, m)
QueueHead(q) == Head(q)
QueueRestKeep(q) == q
QueueRest(q) == Tail(q)

\* Condition.notifyAll on _event_cond: wakes the event thread if it waits
notifyAll(p) == IF p = "waiting" THEN "notified" ELSE p

TornDown == cpc = "done" \/ closes >= 2 \/ eof_seen

NoBlock == [status_code |-> <<>>, first |-> <<>>, content |-> <<>>, data |-> <<>>]

ConnInit ==
  /\ is_running = TRUE
  /\ sock = "open"
  /\ peer = "up"
  /\ wire = <<>>
  /\ event_queue = <<>>
  /\ reply_queue = <<>>
  /\ wlock = [owner |-> 0, count |-> 0]
  /\ elock = "free"
  /\ spc = [s \in Senders |-> "idle"]
  /\ rpc = "check"
  /\ epc = "check"
  /\ cpc = "idle"
  /\ rmsg = NoMsg
  /\ emsg = NoMsg
  /\ calls = 0
  /\ ncmd = 0
  /\ nev = 0
  /\ mine = [s \in Senders |-> 0]
  /\ got = [s \in Senders |-> NoMsg]
  /\ late = [s \in Senders |-> FALSE]
  /\ handled = <<>>
  /\ at_close = {}
  /\ eof_seen = FALSE
  /\ read_failed = FALSE
  /\ closes = 0

ParserIdle ==
  /\ sockin = <<>>
  /\ ppc = "line"
  /\ plines = <<>>
  /\ praw = <<>>
  /\ pcur = NoBlock
  /\ pblocks = <<>>
  /\ delivered = <<>>
  /\ perrors = 0

NumListeners == 1
Fns == 1..NumListeners

\* A BaseController built on an open socket: running, nothing notified yet.
LifecycleIdle ==
  /\ lrunning = TRUE
  /\ lworkers = TRUE
  /\ lconnects = 0
  /\ listeners = <<>>
  /\ observed = [f \in Fns |-> "none"]
  /\ pending = {}
  /\ lops = <<"none", "none">>

Init ==
  /\ ConnInit
  /\ ParserIdle
  /\ LifecycleIdle

\* ------------------------------------------------------------ the daemon
\* The daemon emits an asynchronous event.
DaemonEvent ==
  /\ peer = "up"
  /\ sock = "open"
  /\ nev < MaxEvents
  /\ \E c \in EventShapes :
       wire' = Append(wire, [src |-> "event", id |-> nev + 1, codes |-> c])
  /\ nev' = nev + 1
  /\ UNCHANGED others
  /\ UNCHANGED closes
  /\ UNCHANGED << is_running, sock, peer, event_queue, reply_queue, wlock, elock,
                  spc, rpc, epc, cpc, rmsg, emsg, calls, ncmd, mine, got, late,
                  handled, at_close, eof_seen, read_failed >>

\* The daemon's end goes away: orderly (end-of-stream) or by a reset.
DaemonGone ==
  /\ peer = "up"
  /\ sock = "open"
  /\ \E k \in {"eof", "reset"} : peer' = k
  /\ UNCHANGED others
  /\ UNCHANGED closes
  /\ UNCHANGED << is_running, sock, wire, event_queue, reply_queue, wlock, elock,
                  spc, rpc, epc, cpc, rmsg, emsg, calls, ncmd, nev, mine, got,
                  late, handled, at_close, eof_seen, read_failed >>

\* ---------------------------------------------------------------- send()
\* A caller invokes send(message).
send_call(s) ==
  /\ spc[s] \in {"idle", "raised"}
  /\ calls < MaxSends
  /\ calls' = calls + 1
  /\ spc' = [spc EXCEPT ![s] = "acquire"]
  /\ mine' = [mine EXCEPT ![s] = 0]
  /\ got' = [got EXCEPT ![s] = NoMsg]
  /\ late' = [late EXCEPT ![s] = TornDown]
  /\ UNCHANGED others
  /\ UNCHANGED closes
  /\ UNCHANGED << is_running, sock, peer, wire, event_queue, reply_queue, wlock,
                  elock, rpc, epc, cpc, rmsg, emsg, ncmd, nev, handled, at_close,
                  eof_seen, read_failed >>

\* self._socket_write_cond.acquire()
send_acquire(s) ==
  /\ spc[s] = "acquire"
  /\ wlock.owner \in {0, s}
  /\ wlock' = [owner |-> s, count |-> wlock.count + 1]
  /\ spc' = [spc EXCEPT ![s] = "write"]
  /\ UNCHANGED others
  /\ UNCHANGED closes
  /\ UNCHANGED << is_running, sock, peer, wire, event_queue, reply_queue, elock,
                  rpc, epc, cpc, rmsg, emsg, calls, ncmd, nev, mine, got, late,
                  handled, at_close, eof_seen, read_failed >>

\* self._control_socket_file.write(message); flush(): the command reaches the
\* daemon, which answers it.
send_write_ok(s) ==
  /\ spc[s] = "write"
  /\ sock = "open"
  /\ peer = "up"
  /\ ncmd' = ncmd + 1
  /\ mine' = [mine EXCEPT ![s] = ncmd + 1]
  /\ \E c \in ReplyShapes :
       wire' = Append(wire, [src |-> "reply", id |-> ncmd + 1, codes |-> c])
  /\ spc' = [spc EXCEPT ![s] = "release"]
  /\ UNCHANGED others
  /\ UNCHANGED closes
  /\ UNCHANGED << is_running, sock, peer, event_queue, reply_queue, wlock, elock,
                  rpc, epc, cpc, rmsg, emsg, calls, nev, got, late, handled,
                  at_close, eof_seen, read_failed >>

\* write()/flush() towards a daemon that is gone: the kernel may still accept
\* the bytes; no reply will come.
send_write_lost(s) ==
  /\ spc[s] = "write"
  /\ sock = "open"
  /\ peer # "up"
  /\ spc' = [spc EXCEPT ![s] = "release"]
  /\ UNCHANGED others
  /\ UNCHANGED closes
  /\ UNCHANGED << is_running, sock, peer, wire, event_queue, reply_queue, wlock,
                  elock, rpc, epc, cpc, rmsg, emsg, calls, ncmd, nev, mine, got,
                  late, handled, at_close, eof_seen, read_failed >>

\* write()/flush() raises (closed file, broken pipe): the exception leaves
\* send() before self._socket_write_cond.release().
send_write_raise(s) ==
  /\ spc[s] = "write"
  /\ sock = "closed" \/ peer # "up"
  /\ spc' = [spc EXCEPT ![s] = "raised"]
  /\ UNCHANGED others
  /\ UNCHANGED closes
  /\ UNCHANGED << is_running, sock, peer, wire, event_queue, reply_queue, wlock,
                  elock, rpc, epc, cpc, rmsg, emsg, calls, ncmd, nev, mine, got,
                  late, handled, at_close, eof_seen, read_failed >>

\* self._socket_write_cond.release()
send_release(s) ==
  /\ spc[s] = "release"
  /\ wlock' = IF wlock.count = 1 THEN [owner |-> 0, count |-> 0]
              ELSE [owner |-> s, count |-> wlock.count - 1]
  /\ spc' = [spc EXCEPT ![s] = "get"]
  /\ UNCHANGED others
  /\ UNCHANGED closes
  /\ UNCHANGED << is_running, sock, peer, wire, event_queue, reply_queue, elock,
                  rpc, epc, cpc, rmsg, emsg, calls, ncmd, nev, mine, got, late,
                  handled, at_close, eof_seen, read_failed >>

\* return self._reply_queue.get()
send_get(s) ==
  /\ spc[s] = "get"
  /\ reply_queue # <<>>
  /\ got' = [got EXCEPT ![s] = QueueHead(reply_queue)]
  /\ reply_queue' = QueueRest(reply_queue)
  /\ spc' = [spc EXCEPT ![s] = "idle"]
  /\ UNCHANGED others
  /\ UNCHANGED closes
  /\ UNCHANGED << is_running, sock, peer, wire, event_queue, elock, wlock,
                  rpc, epc, cpc, rmsg, emsg, calls, ncmd, nev, mine, late,
                  handled, at_close, eof_seen, read_failed >>

send_step(s) ==
  \/ send_acquire(s)
  \/ send_write_ok(s)
  \/ send_write_lost(s)
  \/ send_write_raise(s)
  \/ send_release(s)
  \/ send_get(s)

\* ---------------------------------------------------------- _reader_loop
\* while self.is_running():
reader_loop_check ==
  /\ rpc = "check"
  /\ rpc' = IF is_running THEN "read" ELSE "done"
  /\ UNCHANGED others
  /\ UNCHANGED closes
  /\ UNCHANGED << is_running, sock, peer, wire, event_queue, reply_queue,
                  wlock, elock, spc, epc, cpc, rmsg, emsg, calls, ncmd, nev,
                  mine, got, late, handled, at_close, eof_seen, read_failed >>

\* control_message = self._read_message() returns a message; the branch on
\* control_message.get_status_code() == "650" picks the queue.
reader_loop_read ==
  /\ rpc = "read"
  /\ sock = "open"
  /\ wire # <<>>
  /\ rmsg' = Head(wire)
  /\ wire' = Tail(wire)
  /\ rpc' = IF get_status_code(Head(wire)) = "650" THEN "event_acquire"
            ELSE "reply_put"
  /\ UNCHANGED others
  /\ UNCHANGED closes
  /\ UNCHANGED << is_running, sock, peer, event_queue, reply_queue, wlock,
                  elock, spc, epc, cpc, emsg, calls, ncmd, nev, mine, got,
                  late, handled, at_close, eof_seen, read_failed >>

\* readline() returns "" at end-of-stream: _read_message raises
\* ProtocolError("too short"), which the loop logs before it iterates again.
reader_loop_read_eof ==
  /\ rpc = "read"
  /\ sock = "open"
  /\ wire = <<>>
  /\ peer = "eof"
  /\ eof_seen' = TRUE
  /\ rpc' = "check"
  /\ UNCHANGED others
  /\ UNCHANGED closes
  /\ UNCHANGED << is_running, sock, peer, wire, event_queue, reply_queue,
                  wlock, elock, spc, epc, cpc, rmsg, emsg, calls, ncmd, nev,
                  mine, got, late, handled, at_close, read_failed >>

\* readline() raises socket.error: not a ProtocolError, so the exception
\* leaves _reader_loop and the thread ends.
reader_loop_read_error ==
  /\ rpc = "read"
  /\ sock = "open"
  /\ wire = <<>>
  /\ peer = "reset"
  /\ read_failed' = TRUE
  /\ rpc' = "done"
  /\ UNCHANGED others
  /\ UNCHANGED closes
  /\ UNCHANGED << is_running, sock, peer, wire, event_queue, reply_queue,
                  wlock, elock, spc, epc, cpc, rmsg, emsg, calls, ncmd, nev,
                  mine, got, late, handled, at_close, eof_seen >>

\* readline() on the socket close() has shut down and closed: it returns ""
\* (ProtocolError, the loop iterates) or raises (the thread ends).
reader_loop_read_closed ==
  /\ rpc = "read"
  /\ sock = "closed"
  /\ \E r \in {"check", "done"} : rpc' = r
  /\ UNCHANGED others
  /\ UNCHANGED closes
  /\ UNCHANGED << is_running, sock, peer, wire, event_queue, reply_queue,
                  wlock, elock, spc, epc, cpc, rmsg, emsg, calls, ncmd, nev,
                  mine, got, late, handled, at_close, eof_seen, read_failed >>

\* self._event_cond.acquire()
reader_loop_event_acquire ==
  /\ rpc = "event_acquire"
  /\ elock = "free"
  /\ elock' = "reader"
  /\ rpc' = "event_put"
  /\ UNCHANGED others
  /\ UNCHANGED closes
  /\ UNCHANGED << is_running, sock, peer, wire, event_queue, reply_queue,
                  wlock, spc, epc, cpc, rmsg, emsg, calls, ncmd, nev, mine,
                  got, late, handled, at_close, eof_seen, read_failed >>

\* self._event_queue.put(control_message); self._event_cond.notifyAll();
\* self._event_cond.release()
reader_loop_event_put ==
  /\ rpc = "event_put"
  /\ event_queue' = QueuePut(event_queue, rmsg)
  /\ rmsg' = NoMsg
  /\ epc' = notifyAll(epc)
  /\ elock' = "free"
  /\ rpc' = "check"
  /\ UNCHANGED others
  /\ UNCHANGED closes
  /\ UNCHANGED << is_running, sock, peer, wire, reply_queue, wlock, spc, cpc,
                  emsg, calls, ncmd, nev, mine, got, late, handled, at_close,
                  eof_seen, read_failed >>

\* self._reply_queue.put(control_message)
reader_loop_reply_put ==
  /\ rpc = "reply_put"
  /\ reply_queue' = QueuePut(reply_queue, rmsg)
  /\ rmsg' = NoMsg
  /\ rpc' = "check"
  /\ UNCHANGED others
  /\ UNCHANGED closes
  /\ UNCHANGED << is_running, sock, peer, wire, event_queue, wlock, elock, spc,
                  epc, cpc, emsg, calls, ncmd, nev, mine, got, late, handled,
                  at_close, eof_seen, read_failed >>

reader_loop ==
  \/ reader_loop_check
  \/ reader_loop_read
  \/ reader_loop_read_eof
  \/ reader_loop_read_error
  \/ reader_loop_read_closed
  \/ reader_loop_event_acquire
  \/ reader_loop_event_put
  \/ reader_loop_reply_put

\* ----------------------------------------------------------- _event_loop
\* while self.is_running():
event_loop_check ==
  /\ epc = "check"
  /\ epc' = IF is_running THEN "get" ELSE "done"
  /\ UNCHANGED others
  /\ UNCHANGED closes
  /\ UNCHANGED << is_running, sock, peer, wire, event_queue, reply_queue,
                  wlock, elock, spc, rpc, cpc, rmsg, emsg, calls, ncmd, nev,
                  mine, got, late, handled, at_close, eof_seen, read_failed >>

\* get_nowait() and handle_event() run with _event_cond held
event_loop_get_locked ==
  /\ epc = "get"
  /\ event_queue # <<>>
  /\ elock = "free"
  /\ elock' = "event"
  /\ emsg' = QueueHead(event_queue)
  /\ event_queue' = QueueRest(event_queue)
  /\ handled' = Append(handled, QueueHead(event_queue))
  /\ epc' = "handle"
  /\ UNCHANGED others
  /\ UNCHANGED << is_running, sock, peer, wire, reply_queue, wlock, spc, rpc,
                  cpc, rmsg, calls, ncmd, nev, mine, got, late, at_close,
                  eof_seen, read_failed, closes >>

\* event_message = self._event_queue.get_nowait(); self.handle_event(...)
event_loop_get ==
  /\ epc = "get"
  /\ event_queue # <<>>
  /\ emsg' = QueueHead(event_queue)
  /\ event_queue' = QueueRest(event_queue)
  /\ handled' = Append(handled, QueueHead(event_queue))
  /\ epc' = "handle"
  /\ UNCHANGED others
  /\ UNCHANGED closes
  /\ UNCHANGED << is_running, sock, peer, wire, reply_queue, wlock, elock, spc,
                  rpc, cpc, rmsg, calls, ncmd, nev, mine, got, late, at_close,
                  eof_seen, read_failed >>

\* handle_event returns
event_loop_handle_return ==
  /\ epc = "handle"
  /\ emsg' = NoMsg
  /\ epc' = "check"
  /\ UNCHANGED others
  /\ UNCHANGED closes
  /\ UNCHANGED << is_running, sock, peer, wire, event_queue, reply_queue,
                  wlock, elock, spc, rpc, cpc, rmsg, calls, ncmd, nev, mine,
                  got, late, handled, at_close, eof_seen, read_failed >>

\* get_nowait() raises Queue.Empty
event_loop_empty ==
  /\ epc = "get"
  /\ event_queue = <<>>
  /\ epc' = "acquire"
  /\ UNCHANGED others
  /\ UNCHANGED closes
  /\ UNCHANGED << is_running, sock, peer, wire, event_queue, reply_queue,
                  wlock, elock, spc, rpc, cpc, rmsg, emsg, calls, ncmd, nev,
                  mine, got, late, handled, at_close, eof_seen, read_failed >>

\* except Queue.Empty: self._event_cond.acquire(); self._event_cond.wait():
\* takes the lock, then releases it and blocks until notified
event_loop_wait ==
  /\ epc = "acquire"
  /\ elock = "free"
  /\ epc' = "waiting"
  /\ UNCHANGED others
  /\ UNCHANGED closes
  /\ UNCHANGED << is_running, sock, peer, wire, event_queue, reply_queue, wlock,
                  elock, spc, rpc, cpc, rmsg, emsg, calls, ncmd, nev, mine, got,
                  late, handled, at_close, eof_seen, read_failed >>

\* wait() returns after a notify, holding the lock again;
\* self._event_cond.release()
event_loop_wake ==
  /\ epc = "notified"
  /\ elock = "free"
  /\ epc' = "check"
  /\ UNCHANGED others
  /\ UNCHANGED closes
  /\ UNCHANGED << is_running, sock, peer, wire, event_queue, reply_queue, wlock,
                  elock, spc, rpc, cpc, rmsg, emsg, calls, ncmd, nev, mine, got,
                  late, handled, at_close, eof_seen, read_failed >>

event_loop ==
  \/ event_loop_check
  \/ event_loop_get
  \/ event_loop_handle_return
  \/ event_loop_empty
  \/ event_loop_wait
  \/ event_loop_wake

\* --------------------------------------------------------------- close()
\* close() is invoked, for the first time or again after it returned:
\* self._is_running = False
close_call ==
  /\ cpc \in {"idle", "done"}
  /\ closes < MaxCloses
  /\ closes' = closes + 1
  /\ is_running' = FALSE
  /\ at_close' = { event_queue[i].id : i \in 1..Len(event_queue) }
  /\ cpc' = "shutdown"
  /\ UNCHANGED others
  /\ UNCHANGED << sock, peer, wire, event_queue, reply_queue, wlock, elock,
                  spc, rpc, epc, rmsg, emsg, calls, ncmd, nev, mine, got, late,
                  handled, eof_seen, read_failed >>

\* self._control_socket.shutdown(SHUT_RDWR) without the try/except: on a
\* socket that is already closed the socket.error leaves close().
close_socket_uncaught ==
  /\ cpc = "shutdown"
  /\ sock' = "closed"
  /\ cpc' = IF sock = "closed" THEN "raised" ELSE "acquire"
  /\ UNCHANGED others
  /\ UNCHANGED closes
  /\ UNCHANGED << is_running, peer, wire, event_queue, reply_queue, wlock,
                  elock, spc, rpc, epc, rmsg, emsg, calls, ncmd, nev, mine,
                  got, late, handled, at_close, eof_seen, read_failed >>

\* try: self._control_socket.shutdown(SHUT_RDWR) / except socket.error: pass
\* (raised when the socket is not connected or already closed);
\* self._control_socket.close(); self._control_socket_file.close()
close_socket ==
  /\ cpc = "shutdown"
  /\ sock' = "closed"
  /\ cpc' = "acquire"
  /\ UNCHANGED others
  /\ UNCHANGED closes
  /\ UNCHANGED << is_running, peer, wire, event_queue, reply_queue, wlock,
                  elock, spc, rpc, epc, rmsg, emsg, calls, ncmd, nev, mine,
                  got, late, handled, at_close, eof_seen, read_failed >>

\* self._event_cond.acquire()
close_acquire ==
  /\ cpc = "acquire"
  /\ elock = "free"
  /\ elock' = "close"
  /\ cpc' = "notify"
  /\ UNCHANGED others
  /\ UNCHANGED closes
  /\ UNCHANGED << is_running, sock, peer, wire, event_queue, reply_queue,
                  wlock, spc, rpc, epc, rmsg, emsg, calls, ncmd, nev, mine,
                  got, late, handled, at_close, eof_seen, read_failed >>

\* self._event_cond.notifyAll(); self._event_cond.release()
close_notify ==
  /\ cpc = "notify"
  /\ epc' = notifyAll(epc)
  /\ elock' = "free"
  /\ cpc' = "join_event"
  /\ UNCHANGED others
  /\ UNCHANGED closes
  /\ UNCHANGED << is_running, sock, peer, wire, event_queue, reply_queue,
                  wlock, spc, rpc, rmsg, emsg, calls, ncmd, nev, mine, got,
                  late, handled, at_close, eof_seen, read_failed >>

\* self._event_thread.join()
close_join_event ==
  /\ cpc = "join_event"
  /\ epc = "done"
  /\ cpc' = "join_reader"
  /\ UNCHANGED others
  /\ UNCHANGED closes
  /\ UNCHANGED << is_running, sock, peer, wire, event_queue, reply_queue,
                  wlock, elock, spc, rpc, epc, rmsg, emsg, calls, ncmd, nev,
                  mine, got, late, handled, at_close, eof_seen, read_failed >>

\* self._reader_thread.join(); close() returns
close_join_reader ==
  /\ cpc = "join_reader"
  /\ rpc = "done"
  /\ cpc' = "done"
  /\ UNCHANGED others
  /\ UNCHANGED closes
  /\ UNCHANGED << is_running, sock, peer, wire, event_queue, reply_queue,
                  wlock, elock, spc, rpc, epc, rmsg, emsg, calls, ncmd, nev,
                  mine, got, late, handled, at_close, eof_seen, read_failed >>

close_step ==
  \/ close_socket
  \/ close_acquire
  \/ close_notify
  \/ close_join_event
  \/ close_join_reader

\* ------------------------------------------------------- specifications
Next ==
  \/ DaemonEvent
  \/ DaemonGone
  \/ \E s \in Senders : send_call(s)
  \/ \E s \in Senders : send_step(s)
  \/ reader_loop
  \/ event_loop
  \/ close_call
  \/ close_step

Spec == Init /\ [][Next]_vars

\* Threads are scheduled fairly; when the daemon emits or goes away and when
\* the application calls send() or close() is up to them.
FairSpec ==
  /\ Spec
  /\ \A s \in Senders : WF_vars(send_step(s))
  /\ WF_vars(reader_loop)
  /\ WF_vars(event_loop)
  /\ WF_vars(close_step)

TypeOK ==
  /\ is_running \in BOOLEAN
  /\ sock \in {"open", "closed"}
  /\ peer \in {"up", "eof", "reset"}
  /\ elock \in {"free", "reader", "close"}
  /\ wlock.owner \in Senders \cup {0}

\* ------------------------------------------------------------ properties
Ids(q) == { q[i].id : i \in 1..Len(q) }
Written(s) == spc[s] \in {"release", "get"} /\ mine[s] # 0

\* C1: the send() call that wrote the i-th command on the wire returns the
\* daemon's i-th reply.
ReplyPairing ==
  \A s \in Senders :
    got[s] # NoMsg => got[s].src = "reply" /\ got[s].id = mine[s]

\* C2: at most one caller has written its command and not yet taken its reply.
OneOutstanding ==
  Cardinality({ s \in Senders : Written(s) }) <= 1

\* C3: when close() has returned, every event that was queued when close() was
\* invoked has been passed to handle_event, and the event thread exits only
\* with running false and the event queue empty.
ShutdownCompleteness ==
  /\ cpc = "done" => at_close \subseteq Ids(handled)
  /\ epc = "done" => ~is_running /\ event_queue = <<>>

\* C4: while the controller stays running, every event the reader enqueues is
\* eventually passed to handle_event.
EventDelivery ==
  \A e \in 1..MaxEvents :
    [](e \in Ids(event_queue) => <>(e \in Ids(handled) \/ ~is_running))

\* C5: events are passed to handle_event in wire order, one at a time.
EventOrder ==
  /\ \A i \in 1..Len(handled) : handled[i].id = i
  /\ epc = "handle" => emsg = Last(handled)
  /\ epc # "handle" => emsg = NoMsg

EventOrderWitness ==
  /\ Len(handled) >= 2
  /\ epc = "handle"

\* C6: a message whose last line has status 650 goes to the event queue only,
\* every other message to the reply queue only; send() never returns an event
\* and handle_event never receives a non-650 message.
Demux ==
  /\ \A i \in 1..Len(event_queue) : Last(event_queue[i].codes) = "650"
  /\ \A i \in 1..Len(reply_queue) : Last(reply_queue[i].codes) # "650"
  /\ \A i \in 1..Len(handled) : Last(handled[i].codes) = "650"
  /\ \A s \in Senders : got[s] # NoMsg => Last(got[s].codes) # "650"
  /\ rpc = "event_put" => Last(rmsg.codes) = "650"
  /\ rpc = "reply_put" => Last(rmsg.codes) # "650"

DemuxWitness ==
  /\ \E s \in Senders : got[s] # NoMsg /\ got[s].codes[1] = "650"
  /\ handled # <<>>
  /\ handled[1].codes[1] # "650"

\* C7: a send() that waits for its reply when the connection is closed
\* eventually ends.
PendingSendEnds ==
  \A s \in Senders :
    (spc[s] = "get" /\ (~is_running \/ eof_seen \/ read_failed))
      ~> (spc[s] # "get")

\* C8: a read failure or end-of-stream seen by the reader, without close(),
\* closes the controller and ends the reader loop instead of reading again.
TransportFailureFatal ==
  /\ (eof_seen \/ read_failed) /\ cpc = "idle" => rpc # "read"
  /\ rpc = "done" /\ cpc = "idle" => ~is_running

\* C9: a send() invoked on a torn-down connection ends with an error: it
\* neither waits for a reply nor waits for a lock nobody will release.
LockLeaked == wlock.owner # 0 /\ spc[wlock.owner] = "raised"
FailFast ==
  \A s \in Senders :
    late[s] => /\ spc[s] # "get"
               /\ ~(spc[s] = "acquire" /\ wlock.owner # s /\ LockLeaked)

\* C10: every call to close() eventually returns, with both threads finished.
CloseTerminates ==
  (cpc # "idle") ~> (cpc = "done" /\ epc = "done" /\ rpc = "done")

\* C11: every close() returns without raising and leaves the controller
\* closed: running false, socket closed, both threads finished; a repeated
\* call ends in the same state as the first.
IdempotentClose ==
  /\ cpc # "raised"
  /\ cpc = "done" => ~is_running /\ sock = "closed" /\ rpc = "done" /\ epc = "done"

IdempotentCloseWitness ==
  /\ cpc = "done"
  /\ closes >= 2

\* C17: while handle_event runs on the event thread the reader is not held up
\* by it: each reader step that has its input is enabled, unless close()
\* holds the condition's lock, and a caller whose reply is queued can take it.
NoHeadOfLineBlocking ==
  epc = "handle" =>
    /\ rpc = "check" => ENABLED reader_loop_check
    /\ rpc = "read" /\ sock = "open" /\ wire # <<>> => ENABLED reader_loop_read
    /\ rpc = "event_acquire" /\ elock # "close" => ENABLED reader_loop_event_acquire
    /\ rpc = "event_put" => ENABLED reader_loop_event_put
    /\ rpc = "reply_put" => ENABLED reader_loop_reply_put
    /\ \A s \in Senders :
         spc[s] = "get" /\ reply_queue # <<>> => ENABLED send_get(s)

NoHeadOfLineBlockingWitness ==
  /\ epc = "handle"
  /\ rpc = "event_put"
  /\ \E s \in Senders : spc[s] = "get" /\ reply_queue # <<>>

\* C18: the reply channel holds at most one reply that no caller has taken,
\* and holds one only while a caller has written a command and waits for it.
SingleSlot ==
  /\ Len(reply_queue) <= 1
  /\ reply_queue # <<>> => \E s \in Senders : spc[s] \in {"release", "get"}

\* C19: the writer lock is held only by a thread that is inside send().
LockNotLeaked ==
  wlock.owner # 0 => spc[wlock.owner] \in {"write", "release"}

\* C20: no message is handed over twice: over the wire, the reader's hand, the
\* two queues, the events passed to handle_event and the replies returned by
\* send(), every message occurs at most once.
Holding(m) == IF m = NoMsg THEN <<>> ELSE <<m>>
Returned == SelectSeq([i \in 1..NumSenders |-> got[i]], LAMBDA m : m # NoMsg)
Everywhere ==
  wire \o Holding(rmsg) \o event_queue \o reply_queue \o handled \o Returned
NoDuplication ==
  \A i, j \in 1..Len(Everywhere) : i # j => Everywhere[i] # Everywhere[j]

NoDuplicationWitness ==
  /\ Len(handled) >= 2
  /\ Len(Returned) >= 2

\* ======================================================== _read_message
\* Bytes are single-character strings; CR and LF stand for "\r" and "\n".
\* A line is what one readline() returns: a sequence of bytes ending in LF.
CR == "CR"
LF == "LF"
SP == " "

MaxLines == 4

\* Lines the daemon may put on the socket, well-formed and malformed.
LineSet ==
  { <<"2", "5", "0", SP, "k", CR, LF>>,     \* 250 k       end of a message
    <<"2", "5", "0", "-", "k", CR, LF>>,    \* 250-k       mid-reply line
    <<"2", "5", "0", "+", "k", CR, LF>>,    \* 250+k       start of a data block
    <<".", CR, LF>>,                        \* .           end of a data block
    <<".", ".", "k", CR, LF>>,              \* ..k         dot-stuffed data line
    <<".", ".", ".", CR, LF>>,              \* ...         dot-stuffed data line
    <<".", "k", CR, LF>>,                   \* .k          data line, not stuffed
    <<"2", "5", "0", CR, LF>>,              \* 250         three bytes before CRLF
    <<"2", "5", "0", SP, "k", LF>>,         \* 250 k       without the CR
    <<"2", "5", "0", "x", "k", CR, LF>>,    \* 250xk       unrecognized divider
    <<"a", "b", "c", SP, "k", CR, LF>> }    \* abc k       status code without digits

Streams == UNION { [1..n -> LineSet] : n \in 0..MaxLines }

\* line.endswith("\r\n")
endswith_crlf(line) ==
  /\ Len(line) >= 2
  /\ line[Len(line) - 1] = CR
  /\ line[Len(line)] = LF

\* line[:-2]
strip_crlf(line) == SubSeq(line, 1, Len(line) - 2)

\* if line.startswith(".."): line = line[1:]
startswith_dots(line, n) == Len(line) >= n /\ \A i \in 1..n : line[i] = "."
unescape_any(line) == IF startswith_dots(line, 1) THEN Tail(line) ELSE line
unescape_none(line) == line
unescape(line) == IF startswith_dots(line, 2) THEN Tail(line) ELSE line

\* the branch on the divider: "-" mid-reply, " " end, "+" data, else error
line_kind_lenient(divider) ==
  CASE divider = SP -> "end"
    [] divider = "+" -> "data"
    [] OTHER -> "mid"
line_kind(divider) ==
  CASE divider = "-" -> "mid"
    [] divider = SP -> "end"
    [] divider = "+" -> "data"
    [] OTHER -> "bad"

\* status_code, divider, content = line[:3], line[3], line[4:]
status_code_of(line) == SubSeq(line, 1, 3)
divider_of(line) == line[4]
content_of(line) == SubSeq(line, 5, Len(line))
Tuple(status_code, divider, content) ==
  [status_code |-> status_code, divider |-> divider, content |-> content]

\* ControlMessage(lines, raw_content); blocks records, per line, the content
\* the line itself carried and the data lines read after it
ControlMessage(lines, raw_content, blocks) ==
  [lines |-> lines, raw_content |-> raw_content, blocks |-> blocks]

\* the line passes both checks and line[3] exists
Splits(line) ==
  /\ Len(line) >= 4
  /\ endswith_crlf(line)
  /\ Len(strip_crlf(line)) >= 4

\* _reader_loop: except ProtocolError: log; the locals of the call are gone
ProtocolErrorLogged ==
  /\ sockin' = Tail(sockin)
  /\ perrors' = perrors + 1
  /\ ppc' = "line"
  /\ plines' = <<>>
  /\ praw' = <<>>
  /\ pcur' = NoBlock
  /\ pblocks' = <<>>
  /\ UNCHANGED delivered
  /\ UNCHANGED << cvars, lvars >>

\* if len(line) < 4: raise ProtocolError("... too short")
read_message_too_short ==
  /\ ppc = "line"
  /\ sockin # <<>>
  /\ Len(Head(sockin)) < 4
  /\ ProtocolErrorLogged

\* elif not line.endswith("\r\n"): raise ProtocolError
read_message_no_crlf ==
  /\ ppc = "line"
  /\ sockin # <<>>
  /\ Len(Head(sockin)) >= 4
  /\ ~endswith_crlf(Head(sockin))
  /\ ProtocolErrorLogged

\* line[3] on a line of two or three bytes: IndexError, which _reader_loop
\* does not catch; the reader thread ends
read_message_index_error ==
  /\ ppc = "line"
  /\ sockin # <<>>
  /\ Len(Head(sockin)) >= 4
  /\ endswith_crlf(Head(sockin))
  /\ Len(strip_crlf(Head(sockin))) < 4
  /\ ppc' = "dead"
  /\ sockin' = Tail(sockin)
  /\ UNCHANGED << cvars, lvars >>
  /\ UNCHANGED << plines, praw, pcur, pblocks, delivered, perrors >>

\* divider == "-": lines.append(...)
read_message_mid ==
  /\ ppc = "line"
  /\ sockin # <<>>
  /\ Splits(Head(sockin))
  /\ LET line == strip_crlf(Head(sockin)) IN
       /\ line_kind(divider_of(line)) = "mid"
       /\ plines' = Append(plines, Tuple(status_code_of(line), divider_of(line),
                                          content_of(line)))
       /\ pblocks' = Append(pblocks, [first |-> content_of(line), data |-> <<>>])
  /\ praw' = praw \o Head(sockin)
  /\ sockin' = Tail(sockin)
  /\ UNCHANGED << cvars, lvars >>
  /\ UNCHANGED << ppc, pcur, delivered, perrors >>

\* divider == " ": lines.append(...); return ControlMessage(lines, raw_content)
read_message_end ==
  /\ ppc = "line"
  /\ sockin # <<>>
  /\ Splits(Head(sockin))
  /\ LET line == strip_crlf(Head(sockin)) IN
       /\ line_kind(divider_of(line)) = "end"
       /\ delivered' = Append(delivered,
            ControlMessage(
              Append(plines, Tuple(status_code_of(line), divider_of(line),
                                   content_of(line))),
              praw \o Head(sockin),
              Append(pblocks, [first |-> content_of(line), data |-> <<>>])))
  /\ plines' = <<>>
  /\ pblocks' = <<>>
  /\ praw' = <<>>
  /\ sockin' = Tail(sockin)
  /\ UNCHANGED << cvars, lvars >>
  /\ UNCHANGED << ppc, pcur, perrors >>

\* divider == "+": the following lines belong to the content
read_message_data ==
  /\ ppc = "line"
  /\ sockin # <<>>
  /\ Splits(Head(sockin))
  /\ LET line == strip_crlf(Head(sockin)) IN
       /\ line_kind(divider_of(line)) = "data"
       /\ pcur' = [status_code |-> status_code_of(line),
                   first |-> content_of(line),
                   content |-> content_of(line),
                   data |-> <<>>]
  /\ ppc' = "data"
  /\ praw' = praw \o Head(sockin)
  /\ sockin' = Tail(sockin)
  /\ UNCHANGED << cvars, lvars >>
  /\ UNCHANGED << plines, pblocks, delivered, perrors >>

\* else: raise ProtocolError("Unrecognized type ...")
read_message_bad_divider ==
  /\ ppc = "line"
  /\ sockin # <<>>
  /\ Splits(Head(sockin))
  /\ line_kind(divider_of(strip_crlf(Head(sockin)))) = "bad"
  /\ ProtocolErrorLogged

\* data block: if not line.endswith("\r\n"): raise ProtocolError
read_message_data_no_crlf ==
  /\ ppc = "data"
  /\ sockin # <<>>
  /\ ~endswith_crlf(Head(sockin))
  /\ ProtocolErrorLogged

\* data block: elif line == ".\r\n": break; lines.append((status_code, "+", content))
read_message_data_end ==
  /\ ppc = "data"
  /\ sockin # <<>>
  /\ Head(sockin) = <<".", CR, LF>>
  /\ plines' = Append(plines, Tuple(pcur.status_code, "+", pcur.content))
  /\ pblocks' = Append(pblocks, [first |-> pcur.first, data |-> pcur.data])
  /\ pcur' = NoBlock
  /\ ppc' = "line"
  /\ praw' = praw \o Head(sockin)
  /\ sockin' = Tail(sockin)
  /\ UNCHANGED << cvars, lvars >>
  /\ UNCHANGED << delivered, perrors >>

\* data block: line = line[:-2]; unescape; content += "\n" + line
read_message_data_line ==
  /\ ppc = "data"
  /\ sockin # <<>>
  /\ endswith_crlf(Head(sockin))
  /\ Head(sockin) # <<".", CR, LF>>
  /\ pcur' = [pcur EXCEPT
                !.content = @ \o <<LF>> \o unescape(strip_crlf(Head(sockin))),
                !.data = Append(@, Head(sockin))]
  /\ praw' = praw \o Head(sockin)
  /\ sockin' = Tail(sockin)
  /\ UNCHANGED << cvars, lvars >>
  /\ UNCHANGED << ppc, plines, pblocks, delivered, perrors >>

\* The reader thread alone, fed a socket that holds any stream of lines.
ParserInit ==
  /\ ConnInit
  /\ sockin \in Streams
  /\ ppc = "line"
  /\ plines = <<>>
  /\ praw = <<>>
  /\ pcur = NoBlock
  /\ pblocks = <<>>
  /\ delivered = <<>>
  /\ perrors = 0
  /\ LifecycleIdle

ParserNext ==
  \/ read_message_too_short
  \/ read_message_no_crlf
  \/ read_message_index_error
  \/ read_message_mid
  \/ read_message_end
  \/ read_message_data
  \/ read_message_bad_divider
  \/ read_message_data_no_crlf
  \/ read_message_data_end
  \/ read_message_data_line

ParserSpec == ParserInit /\ [][ParserNext]_vars

\* --------------------------------------------------- parser properties
\* s split at every LF
RECURSIVE SplitLF(_)
SplitLF(s) ==
  IF \A i \in 1..Len(s) : s[i] # LF THEN <<s>>
  ELSE LET k == CHOOSE i \in 1..Len(s) :
                  s[i] = LF /\ \A j \in 1..(i - 1) : s[j] # LF
       IN <<SubSeq(s, 1, k - 1)>> \o SplitLF(SubSeq(s, k + 1, Len(s)))

\* what a data line is to contribute: its bytes without the CRLF, and without
\* the first "." when it begins with ".."
Contribution(d) ==
  LET l == SubSeq(d, 1, Len(d) - 2)
  IN IF Len(l) >= 2 /\ l[1] = "." /\ l[2] = "." THEN SubSeq(l, 2, Len(l)) ELSE l

DataBlockOK(t, b) ==
  LET pieces == SplitLF(t.content) IN
    /\ Len(pieces) = 1 + Len(b.data)
    /\ pieces[1] = b.first
    /\ \A k \in 1..Len(b.data) :
         /\ pieces[k + 1] = Contribution(b.data[k])
         /\ b.data[k] = <<".", ".", "k", CR, LF>> => pieces[k + 1] = <<".", "k">>
         /\ b.data[k] = <<".", ".", ".", CR, LF>> => pieces[k + 1] = <<".", ".">>
         /\ b.data[k] # <<".", CR, LF>>
    /\ b.data = <<>> => t.content = b.first

DataBlocksOK(lines, blocks) ==
  \A i \in 1..Len(lines) : lines[i].divider = "+" => DataBlockOK(lines[i], blocks[i])

\* C13: a malformed line never ends the reader: it is reported as a
\* ProtocolError, the message is discarded and the loop keeps reading.
MalformedRecovered ==
  /\ ppc # "dead"
  /\ perrors > 0 /\ ppc = "line" /\ sockin # <<>> => ENABLED ParserNext

\* C14: in a data block the line "." CRLF ends the block and adds nothing;
\* every other line loses its CRLF and, when it begins with "..", its first
\* "."; the lines are appended to the "+" line's content, each after one LF.
DotStuffing ==
  /\ DataBlocksOK(plines, pblocks)
  /\ \A j \in 1..Len(delivered) :
       DataBlocksOK(delivered[j].lines, delivered[j].blocks)

DotStuffingWitness ==
  \E i \in 1..Len(plines) :
    /\ plines[i].divider = "+"
    /\ pblocks[i].data = << <<".", ".", "k", CR, LF>>, <<".", "k", CR, LF>> >>

\* Re-serialization of a message's lines: status + divider + content + CRLF;
\* a "+" line's content is split at LF, the pieces after the first are
\* dot-stuffed, and the block is closed by "." CRLF.
DotStuff(l) == IF Len(l) >= 1 /\ l[1] = "." THEN <<".">> \o l ELSE l

RECURSIVE SerializeData(_)
SerializeData(pieces) ==
  IF pieces = <<>> THEN <<>>
  ELSE DotStuff(Head(pieces)) \o <<CR, LF>> \o SerializeData(Tail(pieces))

SerializeLine(t) ==
  IF t.divider = "+"
  THEN LET pieces == SplitLF(t.content)
       IN t.status_code \o <<"+">> \o Head(pieces) \o <<CR, LF>>
            \o SerializeData(Tail(pieces)) \o <<".", CR, LF>>
  ELSE t.status_code \o <<t.divider>> \o t.content \o <<CR, LF>>

RECURSIVE Serialize(_)
Serialize(lines) ==
  IF lines = <<>> THEN <<>>
  ELSE SerializeLine(Head(lines)) \o Serialize(Tail(lines))

\* every data line that begins with "." begins with ".."
Stuffed(blocks) ==
  \A i \in 1..Len(blocks) : \A k \in 1..Len(blocks[i].data) :
    LET d == blocks[i].data[k] IN d[1] = "." => d[2] = "."

\* C15 as stated: re-serializing the lines of any message the parser returns
\* gives back the bytes it was parsed from.
RoundTrip ==
  \A j \in 1..Len(delivered) :
    Serialize(delivered[j].lines) = delivered[j].raw_content

\* C15 amended: it does so when every data-block line of the input that begins
\* with "." is dot-stuffed (begins with "..").
RoundTripStuffed ==
  \A j \in 1..Len(delivered) :
    Stuffed(delivered[j].blocks) =>
      Serialize(delivered[j].lines) = delivered[j].raw_content

RoundTripStuffedWitness ==
  \E j \in 1..Len(delivered) :
    /\ Stuffed(delivered[j].blocks)
    /\ \E i \in 1..Len(delivered[j].lines) :
         /\ delivered[j].lines[i].divider = "+"
         /\ delivered[j].blocks[i].data = << <<".", ".", "k", CR, LF>> >>

Digits == {"0", "1", "2", "3", "4", "5", "6", "7", "8", "9"}

Shape(m) ==
  /\ m.lines # <<>>
  /\ m.lines[Len(m.lines)].divider = SP
  /\ \A i \in 1..(Len(m.lines) - 1) : m.lines[i].divider \in {"-", "+"}

\* C16 as stated: a returned message has a non-empty line list, exactly its
\* last line has divider " ", earlier lines have "-" or "+", and every
\* status_code is three decimal digits.
WellFormed ==
  \A j \in 1..Len(delivered) :
    /\ Shape(delivered[j])
    /\ \A i \in 1..Len(delivered[j].lines) :
         /\ Len(delivered[j].lines[i].status_code) = 3
         /\ \A k \in 1..3 : delivered[j].lines[i].status_code[k] \in Digits

\* C16 amended: the same, with every status_code a string of three bytes.
WellFormedThreeBytes ==
  \A j \in 1..Len(delivered) :
    /\ Shape(delivered[j])
    /\ \A i \in 1..Len(delivered[j].lines) :
         Len(delivered[j].lines[i].status_code) = 3

WellFormedThreeBytesWitness ==
  \E j \in 1..Len(delivered) :
    /\ Len(delivered[j].lines) = 3
    /\ delivered[j].lines[1].divider = "-"
    /\ delivered[j].lines[2].divider = "+"
    /\ delivered[j].lines[3].status_code = <<"a", "b", "c">>

\* ============================================ BaseController lifecycle
\* The state the listener of test_status_notifications is invoked with by
\* the connect() that follows close(), and by close().
FirstConnectStateReset == "RESET"
FirstConnectState == "INIT"
ClosedState == "CLOSED"

\* Status notification: a listener with spawn_async false is invoked on the
\* transitioning thread, one with spawn_async true on a spawned thread.
ObservedAfter(state) ==
  [f \in Fns |->
     IF \E i \in 1..Len(listeners) :
          listeners[i].fn = f /\ ~listeners[i].spawn_async
     THEN state ELSE observed[f]]
PendingAfter(state) ==
  pending \cup { [fn |-> listeners[i].fn, state |-> state] :
                 i \in { k \in 1..Len(listeners) : listeners[k].spawn_async } }

Called(op) == lops' = <<lops[2], op>>

\* connect() on a running controller: no-op
connect_noop ==
  /\ lrunning
  /\ Called("connect")
  /\ UNCHANGED << lrunning, lworkers, lconnects, listeners, observed, pending >>
  /\ UNCHANGED << cvars, pvars >>

\* connect(): running = true, reader and dispatcher started, INIT (first time)
\* or RESET (subsequent) emitted
connect ==
  /\ ~lrunning
  /\ lrunning' = TRUE
  /\ lworkers' = TRUE
  /\ lconnects' = IF lconnects < 2 THEN lconnects + 1 ELSE 2
  /\ LET state == IF lconnects = 0 THEN FirstConnectState ELSE "RESET" IN
       /\ observed' = ObservedAfter(state)
       /\ pending' = PendingAfter(state)
  /\ Called("connect")
  /\ UNCHANGED listeners
  /\ UNCHANGED << cvars, pvars >>

\* close(): running = false, socket shut, workers joined, CLOSED emitted
base_close ==
  /\ lrunning' = FALSE
  /\ lworkers' = FALSE
  /\ observed' = ObservedAfter(ClosedState)
  /\ pending' = PendingAfter(ClosedState)
  /\ Called("close")
  /\ UNCHANGED << lconnects, listeners >>
  /\ UNCHANGED << cvars, pvars >>

\* a transport failure closes the controller and notifies the listeners
transport_failure ==
  /\ lrunning
  /\ lrunning' = FALSE
  /\ lworkers' = FALSE
  /\ observed' = ObservedAfter(ClosedState)
  /\ pending' = PendingAfter(ClosedState)
  /\ Called("other")
  /\ UNCHANGED << lconnects, listeners >>
  /\ UNCHANGED << cvars, pvars >>

\* add_status_listener(fn, spawn_async): the registry is an ordered set
add_status_listener(f, spawn_async) ==
  /\ \A i \in 1..Len(listeners) : listeners[i].fn # f
  /\ listeners' = Append(listeners, [fn |-> f, spawn_async |-> spawn_async])
  /\ Called("other")
  /\ UNCHANGED << lrunning, lworkers, lconnects, observed, pending >>
  /\ UNCHANGED << cvars, pvars >>

\* remove_status_listener(fn): removal by identity
remove_status_listener(f) ==
  /\ \E i \in 1..Len(listeners) : listeners[i].fn = f
  /\ listeners' = SelectSeq(listeners, LAMBDA l : l.fn # f)
  /\ Called("other")
  /\ UNCHANGED << lrunning, lworkers, lconnects, observed, pending >>
  /\ UNCHANGED << cvars, pvars >>

\* a spawned thread invokes its listener
async_notify ==
  /\ \E n \in pending :
       /\ observed' = [observed EXCEPT ![n.fn] = n.state]
       /\ pending' = pending \ {n}
  /\ Called("other")
  /\ UNCHANGED << lrunning, lworkers, lconnects, listeners >>
  /\ UNCHANGED << cvars, pvars >>

LifecycleInit ==
  /\ ConnInit
  /\ ParserIdle
  /\ LifecycleIdle

LifecycleNext ==
  \/ connect_noop
  \/ connect
  \/ base_close
  \/ transport_failure
  \/ \E f \in Fns, a \in BOOLEAN : add_status_listener(f, a)
  \/ \E f \in Fns : remove_status_listener(f)
  \/ async_notify

LifecycleSpec == LifecycleInit /\ [][LifecycleNext]_vars

\* listeners registered with spawn_async false
SyncFns ==
  { f \in Fns :
      \E i \in 1..Len(listeners) : listeners[i].fn = f /\ ~listeners[i].spawn_async }

====
